---- MODULE Spec2Model ----
(***************************************************************************)
(* Plant watering tracker (src/app.py): a Flask application over two       *)
(* tables, Plant and WateringHistory.  The model keeps the committed       *)
(* contents of the two tables, the system date, and the response of the    *)
(* last request.  Every request handler is one action; the SQLAlchemy      *)
(* session a handler works in is a value built inside the action and       *)
(* either committed or rolled back before the action ends.                 *)
(*                                                                         *)
(* Dates are day numbers counted from 2024-01-01 (day 0), so that          *)
(* 2024-01-08 is day 7 and 2024-01-10 is day 9; date + timedelta(days=n)   *)
(* and (d1 - d2).days are integer addition and subtraction, as they are on *)
(* Python's date ordinals.  A request is taken to run within one calendar  *)
(* day: every datetime.date.today() of one request returns the same date.  *)
(***************************************************************************)
EXTENDS Integers, Sequences, FiniteSets, TLC

VARIABLES
    plants,     \* table plant: rows [id, name, frequency, last_watered], by id
    history,    \* table watering_history: rows [id, plant_id, date], by id
    today,      \* datetime.date.today()
    response,   \* the last request served today and its response
    waterings   \* history variable: the /water requests that succeeded so far

vars == <<plants, history, today, response, waterings>>

\* ---------------------------------------------------------------- bounds
\* Spec: the store under add and water requests.
MaxPlants == 2
MaxWaterings == 2
MaxDay == 2
\* StatusSpec: the status calculation over the days after a plant is added.
StatusMaxPlants == 2
StatusMaxDay == 9

\* ---------------------------------------------------------------- inputs
\* request.form: the fields the request carries.  A form may lack a field.
\* The field 'frequency' is the sequence of the characters typed.
FormsOf(names, frequencies) ==
    [name : names, frequency : frequencies]
        \cup [name : names] \cup [frequency : frequencies]

Forms ==
    FormsOf({"Rose"}, { <<" ", "7">>, <<"0">>, <<"-", "1">>, <<"x">> })

StatusForms ==
    FormsOf({"Rose", "Fern"}, { <<"7">>, <<"2">>, <<"-", "1">>, <<"x">> })

\* ------------------------------------------------------- int(str), abs()
IsSpace(c) == c = " "

RECURSIVE LStrip(_)
LStrip(s) == IF s # <<>> /\ IsSpace(Head(s)) THEN LStrip(Tail(s)) ELSE s

RECURSIVE RStrip(_)
RStrip(s) ==
    IF s # <<>> /\ IsSpace(s[Len(s)]) THEN RStrip(SubSeq(s, 1, Len(s) - 1)) ELSE s

Strip(s) == LStrip(RStrip(s))

Digits == {"0", "1", "2", "3", "4", "5", "6", "7", "8", "9"}

DigitVal(c) ==
    CASE c = "0" -> 0 [] c = "1" -> 1 [] c = "2" -> 2 [] c = "3" -> 3
      [] c = "4" -> 4 [] c = "5" -> 5 [] c = "6" -> 6 [] c = "7" -> 7
      [] c = "8" -> 8 [] c = "9" -> 9

RECURSIVE DigitsValue(_)
DigitsValue(s) ==
    IF s = <<>> THEN 0
    ELSE 10 * DigitsValue(SubSeq(s, 1, Len(s) - 1)) + DigitVal(s[Len(s)])

\* int(text) in base 10: surrounding whitespace is dropped, one optional
\* sign, then at least one digit; for anything else int() raises ValueError.
Signed(t) == t # <<>> /\ Head(t) \in {"+", "-"}

Unsigned(t) == IF Signed(t) THEN Tail(t) ELSE t

RaisesValueError(s) ==
    LET body == Unsigned(Strip(s))
    IN  body = <<>> \/ \E i \in 1..Len(body) : body[i] \notin Digits

PyInt(s) ==
    LET t == Strip(s)
    IN  IF Signed(t) /\ Head(t) = "-" THEN 0 - DigitsValue(Unsigned(t))
        ELSE DigitsValue(Unsigned(t))

Abs(n) == IF n < 0 THEN 0 - n ELSE n

\* ------------------------------------------------------ status calculator
\* Variants of Classify, each with one slip: the due_soon test written
\* "< 2", the alert of the due_today branch left out, the plural "s" added
\* from 1 on.
Classify_SoonBelowTwo(days_until_due) ==
    IF days_until_due < 0 THEN
        [status |-> "overdue",
         status_text |-> ToString(Abs(days_until_due)) \o " days overdue",
         alert |-> TRUE]
    ELSE IF days_until_due = 0 THEN
        [status |-> "due_today", status_text |-> "Due today", alert |-> TRUE]
    ELSE IF days_until_due < 2 THEN
        [status |-> "due_soon",
         status_text |-> "Due in " \o ToString(days_until_due) \o " day"
                             \o (IF days_until_due > 1 THEN "s" ELSE ""),
         alert |-> FALSE]
    ELSE
        [status |-> "healthy",
         status_text |-> "Due in " \o ToString(days_until_due) \o " days",
         alert |-> FALSE]

Classify_DueTodaySilent(days_until_due) ==
    IF days_until_due < 0 THEN
        [status |-> "overdue",
         status_text |-> ToString(Abs(days_until_due)) \o " days overdue",
         alert |-> TRUE]
    ELSE IF days_until_due = 0 THEN
        [status |-> "due_today", status_text |-> "Due today", alert |-> FALSE]
    ELSE IF days_until_due <= 2 THEN
        [status |-> "due_soon",
         status_text |-> "Due in " \o ToString(days_until_due) \o " day"
                             \o (IF days_until_due > 1 THEN "s" ELSE ""),
         alert |-> FALSE]
    ELSE
        [status |-> "healthy",
         status_text |-> "Due in " \o ToString(days_until_due) \o " days",
         alert |-> FALSE]

Classify_PluralFromOne(days_until_due) ==
    IF days_until_due < 0 THEN
        [status |-> "overdue",
         status_text |-> ToString(Abs(days_until_due)) \o " days overdue",
         alert |-> TRUE]
    ELSE IF days_until_due = 0 THEN
        [status |-> "due_today", status_text |-> "Due today", alert |-> TRUE]
    ELSE IF days_until_due <= 2 THEN
        [status |-> "due_soon",
         status_text |-> "Due in " \o ToString(days_until_due) \o " day"
                             \o (IF days_until_due >= 1 THEN "s" ELSE ""),
         alert |-> FALSE]
    ELSE
        [status |-> "healthy",
         status_text |-> "Due in " \o ToString(days_until_due) \o " days",
         alert |-> FALSE]

\* The if/elif chain of index(): status, status text, and whether the
\* plant's name goes on the alert list.
Classify(days_until_due) ==
    IF days_until_due < 0 THEN
        [status |-> "overdue",
         status_text |-> ToString(Abs(days_until_due)) \o " days overdue",
         alert |-> TRUE]
    ELSE IF days_until_due = 0 THEN
        [status |-> "due_today", status_text |-> "Due today", alert |-> TRUE]
    ELSE IF days_until_due <= 2 THEN
        [status |-> "due_soon",
         status_text |-> "Due in " \o ToString(days_until_due) \o " day"
                             \o (IF days_until_due > 1 THEN "s" ELSE ""),
         alert |-> FALSE]
    ELSE
        [status |-> "healthy",
         status_text |-> "Due in " \o ToString(days_until_due) \o " days",
         alert |-> FALSE]

DueDate(plant) == plant.last_watered + plant.frequency

PlantInfo(plant, day) ==
    LET due_date == DueDate(plant)
        days_until_due == due_date - day
        c == Classify(days_until_due)
    IN  [plant |-> plant,
         due_date |-> due_date,
         days_until_due |-> days_until_due,
         status |-> c.status,
         status_text |-> c.status_text,
         watered_today |-> (plant.last_watered = day)]

\* The for loop of index(): one plant_info per plant, and the names of the
\* plants that raise an alert, in the order of the query.
RECURSIVE IndexLoop(_, _, _, _)
IndexLoop(ps, day, alerts, plant_data) ==
    IF ps = <<>> THEN [alerts |-> alerts, plant_data |-> plant_data]
    ELSE LET plant == Head(ps)
             info == PlantInfo(plant, day)
         IN  IndexLoop(Tail(ps), day,
                       IF Classify(info.days_until_due).alert
                       THEN Append(alerts, plant.name) ELSE alerts,
                       Append(plant_data, info))

\* ------------------------------------------------------- store, session
\* A session holds the objects added and the attribute changes made since
\* the last commit; nothing of it is in the tables until Commit.
EmptySession == [new |-> <<>>, dirty |-> <<>>]

SessionAdd(sess, obj) == [sess EXCEPT !.new = Append(@, obj)]

SetLastWatered(sess, id, day) ==
    [sess EXCEPT !.dirty = Append(@, [id |-> id, last_watered |-> day])]

\* Variant of Get: the query leaves the id out and returns the first row.
Get_FirstRow(db, id) == IF db.plants # <<>> THEN <<db.plants[1]>> ELSE <<>>

\* Plant.query.get(id): the rows with that primary key, none or one.  Ids
\* are the row numbers 1, 2, ... and no row is ever deleted, so the row with
\* primary key id is the id-th one.
Get(db, id) == IF id \in 1..Len(db.plants) THEN <<db.plants[id]>> ELSE <<>>

\* Variant of ApplyDirty: the changed attributes are not written.
ApplyDirty_NotWritten(ps, dirty) == ps

RECURSIVE ApplyDirty(_, _)
ApplyDirty(ps, dirty) ==
    IF dirty = <<>> THEN ps
    ELSE ApplyDirty([ps EXCEPT ![Head(dirty).id].last_watered = Head(dirty).last_watered],
                    Tail(dirty))

\* Variant of InsertNew: a history row gets its own id as plant_id.
RECURSIVE InsertNew_OwnId(_, _, _)
InsertNew_OwnId(db, new, day) ==
    IF new = <<>> THEN db
    ELSE LET obj == Head(new)
             db1 == IF obj.table = "plant"
                    THEN [db EXCEPT !.plants =
                            Append(@, [id |-> Len(db.plants) + 1,
                                       name |-> obj.name,
                                       frequency |-> obj.frequency,
                                       last_watered |-> day])]
                    ELSE [db EXCEPT !.history =
                            Append(@, [id |-> Len(db.history) + 1,
                                       plant_id |-> Len(db.history) + 1,
                                       date |-> obj.date])]
         IN  InsertNew_OwnId(db1, Tail(new), day)

RECURSIVE InsertNew(_, _, _)
InsertNew(db, new, day) ==
    IF new = <<>> THEN db
    ELSE LET obj == Head(new)
             db1 == IF obj.table = "plant"
                    THEN [db EXCEPT !.plants =
                            Append(@, [id |-> Len(db.plants) + 1,
                                       name |-> obj.name,
                                       frequency |-> obj.frequency,
                                       last_watered |-> day])]
                    ELSE [db EXCEPT !.history =
                            Append(@, [id |-> Len(db.history) + 1,
                                       plant_id |-> obj.plant_id,
                                       date |-> obj.date])]
         IN  InsertNew(db1, Tail(new), day)

\* Variant of Commit: a history row is left out when the plant already has
\* a row of that date.
Commit_OneRowPerDay(db, sess, day) ==
    LET fresh(obj) ==
            \/ obj.table = "plant"
            \/ ~\E k \in 1..Len(db.history) :
                    /\ db.history[k].plant_id = obj.plant_id
                    /\ db.history[k].date = obj.date
    IN  InsertNew([db EXCEPT !.plants = ApplyDirty(@, sess.dirty)],
                  SelectSeq(sess.new, fresh), day)

\* db.session.commit(): the pending UPDATEs and INSERTs reach the tables in
\* one transaction.  A column default (Plant.last_watered) is evaluated at
\* the INSERT.
Commit(db, sess, day) ==
    InsertNew([db EXCEPT !.plants = ApplyDirty(@, sess.dirty)], sess.new, day)

\* Variant of Rollback: the attribute changes were already written when the
\* request failed.
Rollback_UpdateWritten(db, sess) == [db EXCEPT !.plants = ApplyDirty(@, sess.dirty)]

\* db.session.rollback(), and equally a session dropped without a commit:
\* the tables keep their committed contents.
Rollback(db, sess) == db

DB == [plants |-> plants, history |-> history]

\* ------------------------------------------------------------- requests
\* response is the last request served on the current day and what it
\* returned: the route (op), the id in the path or the form posted, the
\* status code and the template context.
NoResponse == [op |-> "none"]

Init ==
    /\ plants = <<>>
    /\ history = <<>>
    /\ today = 0
    /\ response = NoResponse
    /\ waterings = 0

\* Midnight: the system date moves on between two requests.
Tick ==
    /\ today' = today + 1
    /\ response' = NoResponse
    /\ UNCHANGED <<plants, history, waterings>>

\* GET /
Index ==
    /\ LET r == IndexLoop(plants, today, <<>>, <<>>)
       IN  response' = [op |-> "index", code |-> 200,
                        plant_data |-> r.plant_data, alerts |-> r.alerts]
    /\ UNCHANGED <<plants, history, today, waterings>>

\* GET /add
AddForm ==
    /\ response' = [op |-> "add", method |-> "GET", code |-> 200]
    /\ UNCHANGED <<plants, history, today, waterings>>

\* POST /add.  A form without one of the two fields is answered 400 by
\* request.form[...]; a frequency int() rejects raises ValueError, which is
\* answered 500; so is a commit the store rejects (storeFails).
Add(form, storeFails) ==
    LET reply(code) == [op |-> "add", method |-> "POST", form |-> form, code |-> code]
    IN  \/ /\ DOMAIN form # {"name", "frequency"}
           /\ ~storeFails
           /\ response' = reply(400)
           /\ UNCHANGED <<plants, history, today, waterings>>
        \/ /\ DOMAIN form = {"name", "frequency"}
           /\ RaisesValueError(form.frequency)
           /\ ~storeFails
           /\ response' = reply(500)
           /\ UNCHANGED <<plants, history, today, waterings>>
        \/ /\ DOMAIN form = {"name", "frequency"}
           /\ ~RaisesValueError(form.frequency)
           /\ LET freq == PyInt(form.frequency)
                  new_plant == [table |-> "plant", name |-> form.name, frequency |-> freq]
                  sess == SessionAdd(EmptySession, new_plant)
                  db == IF storeFails THEN Rollback(DB, sess) ELSE Commit(DB, sess, today)
              IN  /\ plants' = db.plants
                  /\ history' = db.history
                  /\ response' = reply(IF storeFails THEN 500 ELSE 302)
           /\ UNCHANGED <<today, waterings>>

\* GET /water/<id>.  failsAt is where an error ends the request, if one
\* does: after the plant's attribute is set ("update"), after the history
\* row is added to the session ("add"), or in the commit ("commit").
\* waterings counts the requests that ended in the redirect.
FailPoints == {"update", "add", "commit"}

Water(id, failsAt) ==
    LET reply(code) == [op |-> "water", id |-> id, code |-> code]
    IN  \/ /\ Get(DB, id) = <<>>
           /\ failsAt = "none"
           /\ response' = reply(404)
           /\ UNCHANGED <<plants, history, today, waterings>>
        \/ /\ Get(DB, id) # <<>>
           /\ LET plant == Get(DB, id)[1]
                  s1 == SetLastWatered(EmptySession, plant.id, today)
                  s2 == SessionAdd(s1, [table |-> "history", plant_id |-> plant.id,
                                        date |-> today])
              IN  \/ /\ failsAt = "none"
                     /\ LET db == Commit(DB, s2, today)
                        IN  plants' = db.plants /\ history' = db.history
                     /\ waterings' = waterings + 1
                     /\ response' = reply(302)
                  \/ /\ failsAt \in FailPoints
                     /\ LET db == Rollback(DB, IF failsAt = "update" THEN s1 ELSE s2)
                        IN  plants' = db.plants /\ history' = db.history
                     /\ waterings' = waterings
                     /\ response' = reply(500)
           /\ UNCHANGED today

\* GET /history/<id>
History(id) ==
    /\ IF Get(DB, id) = <<>>
       THEN response' = [op |-> "history", id |-> id, code |-> 404]
       ELSE LET plant == Get(DB, id)[1]
            IN  response' = [op |-> "history", id |-> id, code |-> 200,
                             plant |-> plant, due_date |-> DueDate(plant),
                             events |-> SelectSeq(history, LAMBDA h : h.plant_id = plant.id)]
    /\ UNCHANGED <<plants, history, today, waterings>>

\* GET /about
About ==
    /\ response' = [op |-> "about", code |-> 200,
                    total_plants |-> Len(plants), total_waterings |-> Len(history)]
    /\ UNCHANGED <<plants, history, today, waterings>>

\* -------------------------------------------------------- specifications
\* Any request at any time, while the tables and the date are within the
\* bounds.
Next ==
    \/ today < MaxDay /\ Tick
    \/ Index
    \/ AddForm
    \/ Len(plants) < MaxPlants
         /\ \E form \in Forms, storeFails \in BOOLEAN : Add(form, storeFails)
    \/ Len(history) < MaxWaterings
         /\ \E id \in 1..(MaxPlants + 1), failsAt \in FailPoints \cup {"none"} :
                Water(id, failsAt)
    \/ \E id \in 1..(MaxPlants + 1) : History(id)
    \/ About

Spec == Init /\ [][Next]_vars

\* Plants are added and the list is queried as the days pass.
StatusNext ==
    \/ today < StatusMaxDay /\ Tick
    \/ Index
    \/ Len(plants) < StatusMaxPlants
         /\ \E form \in StatusForms, storeFails \in BOOLEAN : Add(form, storeFails)

StatusSpec == Init /\ [][StatusNext]_vars

\* ================================================================ claims
Alerting == {"overdue", "due_today"}

\* the step is a /water request that ended in the redirect, for plant id
WateredOk(id) ==
    waterings' = waterings + 1 /\ response'.op = "water" /\ response'.id = id

\* C1: the list shows every plant with days_until_due = (last_watered +
\* frequency) - today, and the status is overdue below 0, due_today at 0,
\* due_soon at 1 and 2, healthy from 3 on; a plant of frequency 7 watered on
\* 2024-01-01 (day 0) is due_today with 0 days on 2024-01-08 (day 7) and
\* overdue with -2 days on 2024-01-10 (day 9).
C1_StatusByDaysUntilDue ==
    response.op = "index" =>
        /\ Len(response.plant_data) = Len(plants)
        /\ \A i \in 1..Len(plants) :
              LET info == response.plant_data[i]
                  d == (plants[i].last_watered + plants[i].frequency) - today
              IN  /\ info.plant = plants[i]
                  /\ info.days_until_due = d
                  /\ d < 0 => info.status = "overdue"
                  /\ d = 0 => info.status = "due_today"
                  /\ (0 < d /\ d <= 2) => info.status = "due_soon"
                  /\ d >= 3 => info.status = "healthy"
                  /\ (plants[i].frequency = 7 /\ plants[i].last_watered = 0 /\ today = 7)
                        => (info.days_until_due = 0 /\ info.status = "due_today")
                  /\ (plants[i].frequency = 7 /\ plants[i].last_watered = 0 /\ today = 9)
                        => (info.days_until_due = 0 - 2 /\ info.status = "overdue")

\* On 2024-01-10 the list shows a plant of frequency 7 watered on 2024-01-01
\* as overdue and one watered on 2024-01-03 as due today.
C1_Witness ==
    /\ response.op = "index"
    /\ today = 9
    /\ \E i, j \in 1..Len(plants) :
          /\ plants[i].frequency = 7 /\ plants[i].last_watered = 0
          /\ response.plant_data[i].status = "overdue"
          /\ plants[j].frequency = 7 /\ plants[j].last_watered = 2
          /\ response.plant_data[j].status = "due_today"

\* C2 (as claimed): a POST /add whose frequency is 0 or negative is answered
\* with a client error and leaves both tables as they were.
C2_NonPositiveFrequencyRejected ==
    [][(/\ response'.op = "add"
        /\ response'.method = "POST"
        /\ DOMAIN response'.form = {"name", "frequency"}
        /\ response'.form.frequency \in { <<"0">>, <<"-", "1">> })
          => (/\ response'.code \in 400..499
              /\ plants' = plants
              /\ history' = history)]_vars

\* C3 (as claimed): every plant in the table has frequency > 0.
C3_FrequencyPositive ==
    \A i \in 1..Len(plants) : plants[i].frequency > 0

\* C4: in the committed tables the update of last_watered and the insert of
\* the history row come together or not at all: a plant that has history
\* rows was last watered on the date of its latest row, a step that adds a
\* row for a plant leaves the plant's last_watered at the row's date, and a
\* step that changes a plant's last_watered adds a row for it.
LatestEvent(i) ==
    LET own == {k \in 1..Len(history) : history[k].plant_id = i}
    IN  CHOOSE k \in own : \A m \in own : m <= k

C4_WaterAllOrNothing ==
    /\ [](\A i \in 1..Len(plants) :
            (\E k \in 1..Len(history) : history[k].plant_id = i)
                => plants[i].last_watered = history[LatestEvent(i)].date)
    /\ [][\A i \in 1..Len(plants) :
            LET added == {k \in (Len(history) + 1)..Len(history') :
                              history'[k].plant_id = i}
            IN  /\ \A k \in added : plants'[i].last_watered = history'[k].date
                /\ plants'[i].last_watered # plants[i].last_watered => added # {}]_vars

\* A /water request for a plant last watered on an earlier day has failed
\* after the attribute was set.
C4_Witness ==
    /\ response.op = "water"
    /\ response.code = 500
    /\ response.id \in 1..Len(plants)
    /\ plants[response.id].last_watered < today
    /\ Len(history) > 0

\* C5: a /water request for an id no plant has is answered 404 and changes
\* neither table.
C5_WaterUnknownId ==
    [][(response'.op = "water" /\ response'.id \notin {plants[i].id : i \in 1..Len(plants)})
          => (/\ response'.code = 404
              /\ plants' = plants
              /\ history' = history)]_vars

C5_Witness ==
    /\ response.op = "water"
    /\ response.code = 404
    /\ Len(plants) > 0
    /\ Len(history) > 0

\* C6: the list queried right after a successful /water of a plant, on the
\* same day, shows the plant as watered today with days_until_due equal to
\* its frequency; the /water step changes nothing of the plants table but
\* that plant's last_watered.
C6_WateredThenQueried ==
    [][/\ (response.op = "water" /\ response.code = 302 /\ response'.op = "index")
            => LET info == response'.plant_data[response.id]
               IN  /\ info.plant.id = response.id
                   /\ info.watered_today
                   /\ info.days_until_due = plants[response.id].frequency
       /\ \A id \in 1..Len(plants) :
            WateredOk(id) =>
                /\ Len(plants') = Len(plants)
                /\ \A i \in 1..Len(plants) : i # id => plants'[i] = plants[i]
                /\ plants'[id].id = plants[id].id
                /\ plants'[id].name = plants[id].name
                /\ plants'[id].frequency = plants[id].frequency]_vars

\* The list shows a plant that was added on an earlier day and watered
\* today, beside another plant.
C6_Witness ==
    /\ response.op = "index"
    /\ Len(plants) = 2
    /\ today > 0
    /\ \E i \in 1..Len(plants) :
          /\ plants[i].frequency = 7
          /\ \E k \in 1..Len(history) : history[k].plant_id = i /\ history[k].date = today
          /\ \A k \in 1..Len(history) : history[k].plant_id = i => history[k].date = today
          /\ response.plant_data[i].watered_today
          /\ response.plant_data[i].days_until_due = 7

\* C7: the alert list is the names of the plants shown as overdue or due
\* today, one entry per such plant in the order of the list; so a name is on
\* it exactly when some plant of that name is overdue or due today.
C7_AlertsAreDuePlants ==
    response.op = "index" =>
        LET due == SelectSeq(response.plant_data, LAMBDA info : info.status \in Alerting)
        IN  /\ Len(response.alerts) = Len(due)
            /\ \A k \in 1..Len(due) : response.alerts[k] = due[k].plant.name
            /\ \A n \in {"Rose", "Fern"} :
                  (\E k \in 1..Len(response.alerts) : response.alerts[k] = n)
                    <=> (\E i \in 1..Len(plants) :
                            /\ plants[i].name = n
                            /\ (plants[i].last_watered + plants[i].frequency) - today <= 0)

\* Two plants of the same name, one due today and one healthy: the name is
\* on the alert list once.
C7_Witness ==
    /\ response.op = "index"
    /\ Len(plants) = 2
    /\ plants[1].name = plants[2].name
    /\ response.plant_data[1].status = "due_today"
    /\ response.plant_data[2].status = "healthy"
    /\ response.alerts = <<plants[1].name>>

\* C8: every history row's plant_id is the id of a plant in the table.
C8_NoOrphanedHistory ==
    \A k \in 1..Len(history) :
        \E i \in 1..Len(plants) : plants[i].id = history[k].plant_id

C8_Witness ==
    /\ Len(history) = 2
    /\ history[1].plant_id # history[2].plant_id

\* C9: the history table is append-only with one row per successful /water:
\* such a request appends one row for its plant dated today, every other
\* step leaves the table as it is, and the count /about reports is the
\* number of successful /water requests.
C9_HistoryAppendOnly ==
    /\ [](/\ Len(history) = waterings
          /\ response.op = "about" => response.total_waterings = waterings)
    /\ [][/\ Len(history') >= Len(history)
          /\ SubSeq(history', 1, Len(history)) = history
          /\ waterings' = waterings => history' = history
          /\ \A id \in 1..Len(plants) :
                WateredOk(id) =>
                    /\ Len(history') = Len(history) + 1
                    /\ history'[Len(history')].plant_id = id
                    /\ history'[Len(history')].date = today]_vars

\* /about reports two waterings, both of the same plant on the same day.
C9_Witness ==
    /\ response.op = "about"
    /\ response.total_waterings = 2
    /\ Len(history) = 2
    /\ history[1].plant_id = history[2].plant_id
    /\ history[1].date = history[2].date
    /\ history[1].id # history[2].id

\* C10: the status text is "<N> days overdue" with N = |days_until_due| when
\* overdue ("1 days overdue" for N = 1), "Due today" at 0, "Due in 1 day" at
\* 1, "Due in 2 days" at 2 and "Due in <N> days" when healthy.
C10_StatusText ==
    response.op = "index" =>
        \A i \in 1..Len(response.plant_data) :
            LET info == response.plant_data[i]
                d == info.days_until_due
            IN  /\ d = 0 - 2 => info.status_text = "2 days overdue"
                /\ d = 0 - 1 => info.status_text = "1 days overdue"
                /\ d < 0 => info.status_text = ToString(0 - d) \o " days overdue"
                /\ d = 0 => info.status_text = "Due today"
                /\ d = 1 => info.status_text = "Due in 1 day"
                /\ d = 2 => info.status_text = "Due in 2 days"
                /\ d = 7 => info.status_text = "Due in 7 days"
                /\ d >= 3 => info.status_text = "Due in " \o ToString(d) \o " days"

\* The list shows one plant a day overdue and one due in a day.
C10_Witness ==
    /\ response.op = "index"
    /\ \E i, j \in 1..Len(response.plant_data) :
          /\ response.plant_data[i].days_until_due = 0 - 1
          /\ response.plant_data[i].status_text = "1 days overdue"
          /\ response.plant_data[j].days_until_due = 1
          /\ response.plant_data[j].status_text = "Due in 1 day"

====
